---- MODULE Spec2Model ----
(***************************************************************************)
(* Orchestration core of job-search-mas: the Orchestrator's four workflows *)
(* over the three pipeline agents and the session store (Redis-backed or   *)
(* the in-process fallback dictionary).                                    *)
(*                                                                         *)
(* Requests come in through the two endpoints that start a workflow, the   *)
(* only callers of execute_task, and one execute_task call runs at a time. *)
(* Each action is the code between two await points of the orchestrator,   *)
(* or one step of the agent that is being awaited.  Scores are in tenths   *)
(* (5 stands for 0.5).                                                     *)
(*                                                                         *)
(* Collaborators: the language model, the resume parser, the job search    *)
(* provider, the content generator and the database answer with any of     *)
(* their outcomes.  A Redis command may fail inside an agent, whose        *)
(* try/except turns it into a failure result; the commands execute_task    *)
(* and the sub-workflows issue themselves are taken to succeed.            *)
(*                                                                         *)
(* Specifications: Spec is the request pipeline; SpecLoss adds the expiry  *)
(* of a workspace key during a workflow; TrackerSpec is the applications   *)
(* table under the analytics agent and the persistence block of the        *)
(* personalization agent; GuardSpec is the output guard.                   *)
(***************************************************************************)
EXTENDS Integers, Sequences, FiniteSets, TLC

VARIABLES
    backend,      \* "redis" | "fallback": which branch RedisMemory.__init__ took
    store,        \* session id -> session context, or NoCtx
    workspace,    \* session id -> agent name -> last published output
    appDB,        \* job id -> persisted application row, or NoApp
    pc,           \* position of the orchestrator inside execute_task
    req,          \* task_request of the running call
    context,      \* local `context` of the running sub-workflow
    jcontext,     \* local `context` of _full_journey (line 207)
    results,      \* local `results` of _full_journey
    top_jobs,     \* local `top_jobs` of _full_journey
    idx,          \* position of the for loop over top_jobs
    applications, \* local `applications` of _full_journey
    ret,          \* object returned by execute_task
    apc,          \* position of the awaited agent
    atask,        \* task handed to the awaited agent
    aresult,      \* object returned by the awaited agent
    iteration,    \* StrategyAgent.process: loop counter
    parsed_data,  \* StrategyAgent.process: parser output
    strategy,     \* StrategyAgent.process: local `strategy`, Unset until assigned
    invoked,      \* log: agents whose process was called during this call
    inflight,     \* log: agents whose process has been called and not returned
    generated,    \* log: what each _generate_strategy call of this agent call returned
    personalized, \* log: job ids the personalization agent was invoked for
    outcomes,     \* log: job id and status of each _create_application return
    contentCalls, \* log: calls of ContentGenerator.execute during this call
    marketLog,    \* log: search result and ranking reply of the last market agent call
    contentResults, \* log: what the two ContentGenerator.execute calls of the last
                  \*      personalization agent call returned
    http,         \* the last HTTP request: endpoint, what its payload carries, status
    dbLog,        \* log: whether the persistence block of the last agent call succeeded
    kept,         \* twin run: the workspace of the run in which no record is lost
    keptResult,   \* twin run: what the last agent call returns in that run
    now,          \* tracker: the clock datetime.now() reads
    kpi,          \* tracker: the last KPI snapshot
    statusLog,    \* tracker log: the statuses each application was updated to, in order
    raw,          \* output guard: the object handed to sanitize_output
    sanitized,    \* output guard: the object it returned, Unset before the call
    tresult,      \* tracker: what the last _update_application_status call returned
    history,      \* log: earlier completed calls, <<session, task_type, job ids>>
    calls,        \* number of requests so far
    deviations    \* number of collaborator outcomes that left the nominal run

orchVars  == <<pc, req, context, jcontext, results, top_jobs, idx, applications, ret>>
agentVars == <<apc, atask, aresult, iteration, parsed_data, strategy>>
twinVars    == <<kept, keptResult>>
trackerVars == <<now, kpi, statusLog, tresult>>
guardVars   == <<raw, sanitized>>
obsVars   == <<marketLog, contentResults, http, dbLog, twinVars, trackerVars, guardVars>>
logVars   == <<invoked, inflight, generated, personalized, outcomes, contentCalls,
               obsVars, history, calls, deviations>>
vars == <<backend, store, workspace, appDB, orchVars, agentVars, logVars>>

---------------------------------------------------------------------------
(* Bounds of the exploration *)

MaxCalls       == 2
MaxJobs        == 4
MaxDeviations  == 2
MaxTicks       == 5
MaxTracked     == 2

(* Program constants *)

TopN           == 3
max_iterations == 3
DefaultScore   == 5
MaxRanked      == 20

---------------------------------------------------------------------------
(* Values *)

Sessions  == {"s1"}
UserId    == "u1"
TaskTypes == {"analyze_profile", "find_jobs", "create_application",
              "full_journey", "unknown"}

NoCtx  == [absent |-> TRUE]
NoApp  == [absent |-> TRUE]
Unset  == [unset |-> TRUE]
NoRet  == << >>
NoHttp == [none |-> TRUE]
NoWs   == [absent |-> TRUE]
NoTime == 0
Raised == [raised |-> TRUE]
Empty  == << >>

AllJobIds == <<"j1", "j2", "j3", "j4", "j5", "j6">>
JobIdSet  == {AllJobIds[i] : i \in DOMAIN AllJobIds}

\* A posting as JobSearchAPI builds it; posted_at is a datetime object for the
\* odd postings and None for the others.
JobPosting(i) ==
    [job_id |-> AllJobIds[i], title |-> "t",
     posted_at |-> IF i % 2 = 1 THEN "datetime" ELSE "None"]

\* Python dict.update
Merge(c, u) ==
    [k \in (DOMAIN c) \cup (DOMAIN u) |-> IF k \in DOMAIN u THEN u[k] ELSE c[k]]

Has(d, k) == k \in DOMAIN d

\* dict.get(k, default)
Get(d, k, default) == IF k \in DOMAIN d THEN d[k] ELSE default

Take(s, n) == SubSeq(s, 1, IF Len(s) < n THEN Len(s) ELSE n)

---------------------------------------------------------------------------
(* RedisMemory *)

\* json.loads(json.dumps(context, default=str)): datetime objects come back
\* as strings, everything else in a context is plain JSON.
JsonValue(k, v) ==
    IF k = "job_matches"
    THEN [i \in DOMAIN v |->
            [v[i] EXCEPT !.job.posted_at =
                IF @ = "datetime" THEN "str" ELSE @]]
    ELSE v

JsonCopy(c) == [k \in DOMAIN c |-> JsonValue(k, c[k])]

\* set_session_context: Redis keeps the serialised context, the fallback
\* keeps the dictionary object itself.
set_session_context(st, sid, c) ==
    [st EXCEPT ![sid] = IF backend = "redis" THEN JsonCopy(c) ELSE c]

\* get_session_context
get_session_context(st, sid) == st[sid]

\* update_session_context: get (or {}), dict.update, set
update_session_context(st, sid, updates) ==
    LET cur == IF get_session_context(st, sid) = NoCtx
               THEN Empty ELSE get_session_context(st, sid)
    IN  set_session_context(st, sid, Merge(cur, updates))

\* Variant: the record as get_shared_data returned it, None included.
workspace_as_read(record) == record
\* get_shared_data(key) or {} (line 85)
workspace_or_empty(record) == IF record = NoWs THEN Empty ELSE record

\* append_agent_output: the new workspace; `"agent_outputs" not in workspace`
\* raises when workspace is None.
append_agent_output(ws, sid, agent, output) ==
    LET record == workspace_or_empty(ws[sid])
    IN  IF record = NoWs THEN Raised
        ELSE [ws EXCEPT ![sid] = Merge(record, (agent :> output))]

\* A local name bound to the result of get_session_context: with Redis it is
\* a private copy, with the fallback it is the stored dictionary, so it shows
\* whatever the store holds.
Alias(local, st, sid) == IF backend = "fallback" THEN st[sid] ELSE local

\* context["agent_trace"].append(agent) on a local context
TraceAppend(c, agent) == [c EXCEPT !["agent_trace"] = Append(@, agent)]

\* The store after a local context was mutated: only the fallback sees it.
StoreAfterLocal(st, sid, c) ==
    IF backend = "fallback" THEN [st EXCEPT ![sid] = c] ELSE st

---------------------------------------------------------------------------
(* Collaborator outcomes.  Every outcome a collaborator can produce is     *)
(* offered at every call; a run may leave the nominal outcome at most      *)
(* MaxDeviations times.                                                    *)

Cost(choice, nominal) == IF choice = nominal THEN 0 ELSE 1

Affordable(cost) == deviations + cost <= MaxDeviations

\* A Redis command issued by an agent may fail (connection error), in
\* update_context or in publish_output; the fallback dictionary cannot.
StoreFaults == IF backend = "redis"
               THEN {"none", "update_context", "publish_output"}
               ELSE {"none"}

\* Variant: a failed persistence block ends the call in the agent's except
\* branch.
AfterPersistenceRaises(result, db_ok) ==
    IF db_ok THEN result ELSE [success |-> FALSE, error |-> "db error"]
\* The result an agent goes on with after its "Save to PostgreSQL" block:
\* both except clauses of the block log the error and fall through.
AfterPersistence(result, db_ok) == result

\* What the agent's `except Exception` returns for a failed store command
StoreError == [success |-> FALSE, error |-> "store error"]

\* Replies of the strategy prompt: the call raises, or returns a JSON object.
LLMComplete     == [ok |-> TRUE, json |-> [objectives |-> <<"grow">>,
                                           target_positions |-> <<"Python Developer">>]]
LLMNoPositions  == [ok |-> TRUE, json |-> [objectives |-> <<"grow">>,
                                           target_positions |-> << >>]]
LLMNoObjectives == [ok |-> TRUE, json |-> [target_positions |-> <<"Python Developer">>]]
LLMRaises       == [ok |-> FALSE, json |-> Empty]
StrategyReplies == {LLMComplete, LLMNoPositions, LLMNoObjectives, LLMRaises}

ResumeInputs == {[resume_text |-> "", resume_pdf |-> "None"],
                 [resume_text |-> "resume text", resume_pdf |-> "None"],
                 [resume_text |-> "", resume_pdf |-> "bytes"]}

---------------------------------------------------------------------------
(* BaseAgent *)

\* The tail of every agent's process: update_context(session_id, updates),
\* publish_output(session_id, result), return result.  A store command that
\* raises ends the call in the agent's except branch; what was written
\* before it stays written.
AgentStores(fault, agent, result, updates) ==
    LET sid          == atask.session_id
        appended     == append_agent_output(workspace, sid, agent, result)
        keptAppended == append_agent_output(kept, sid, agent, result)
    IN  /\ aresult' = IF fault = "none" /\ appended # Raised THEN result ELSE StoreError
        /\ store' = IF fault = "update_context" THEN store
                    ELSE update_session_context(store, sid, updates)
        /\ workspace' = IF fault = "none" /\ appended # Raised THEN appended
                        ELSE workspace
        /\ kept' = IF fault = "none" /\ keptAppended # Raised THEN keptAppended
                   ELSE kept
        /\ keptResult' = [invocation |-> Len(invoked),
                          result |-> IF fault = "none" /\ keptAppended # Raised
                                     THEN result ELSE StoreError]
        /\ context' = Alias(context, store', sid)
        /\ jcontext' = IF jcontext = NoCtx THEN NoCtx
                       ELSE Alias(jcontext, store', sid)

---------------------------------------------------------------------------
(* StrategyAgent *)

\* Python truthiness of d.get(k) for a list-valued key
Truthy(d, k) == Has(d, k) /\ d[k] # << >>

\* ResumeParser.execute on success
ParsedData(task) ==
    [skills |-> <<"python">>, seniority |-> "middle", location |-> "None",
     resume_text |-> IF task.resume_pdf # "None" THEN "pdf text"
                     ELSE task.resume_text]

\* ResumeParser.execute on failure
ParseFailure(task) ==
    [success |-> FALSE, error |-> "parse error",
     data |-> [skills |-> << >>, seniority |-> "middle", location |-> "None",
               resume_text |-> task.resume_text]]

\* _generate_strategy: the model's JSON with the ids added, or the fixed
\* defaults when the call or the decoding raises.
generate_strategy(reply, user_id) ==
    IF reply.ok
    THEN Merge(reply.json, [strategy_id |-> "strategy_" \o user_id, user_id |-> user_id])
    ELSE [strategy_id |-> "strategy_" \o user_id, user_id |-> user_id,
          objectives |-> <<"Find suitable position">>,
          target_positions |-> <<"Software Developer">>,
          target_companies |-> << >>, priority_skills |-> << >>,
          timeline |-> "3-6 months"]

\* Variant: only the objectives are looked at.
StrategyCompleteObjectivesOnly(s) == Truthy(s, "objectives")

\* Variant: only the target positions are looked at.
StrategyCompletePositionsOnly(s) == Truthy(s, "target_positions")

\* OBSERVE step of iteration 2
StrategyComplete(s) == Truthy(s, "target_positions") /\ Truthy(s, "objectives")

\* Variant: the check of the input is missing.
ResumeMissingNever(resume_text, resume_pdf) == FALSE

\* `not resume_text and not resume_pdf` (line 29)
ResumeMissing(resume_text, resume_pdf) == resume_text = "" /\ resume_pdf = "None"

\* ResumeParser.execute raises inside its try, and so returns its failure
\* object, when it is given neither a PDF nor a text.
Parseable(task) == task.resume_pdf # "None" \/ task.resume_text # ""

\* process, lines 24-41: the résumé check before the loop
StrategyEnter ==
    /\ apc = "strategy_agent"
    /\ LET resume_text == IF atask.resume_text # "" THEN atask.resume_text
                          ELSE Get(context, "resume_text", "")
           resume_pdf  == IF atask.resume_pdf # "None" THEN atask.resume_pdf
                          ELSE Get(context, "resume_pdf", "None")
       IN  IF ResumeMissing(resume_text, resume_pdf)
           THEN /\ aresult' = [success |-> FALSE,
                               error |-> "Resume text or PDF is required"]
                /\ apc' = "returned"
                /\ UNCHANGED <<iteration, parsed_data, strategy>>
           ELSE /\ iteration' = 0
                /\ parsed_data' = Unset
                /\ strategy' = Unset
                /\ apc' = "strategy_loop"
                /\ UNCHANGED aresult
    /\ generated' = << >>
    /\ UNCHANGED <<backend, store, workspace, appDB, orchVars, atask,
                   invoked, inflight, personalized, outcomes, contentCalls,
                   obsVars, history, calls, deviations>>

\* One pass of `while iteration < max_iterations`, iteration 1: parse
StrategyParse ==
    /\ apc = "strategy_loop"
    /\ iteration < max_iterations
    /\ iteration + 1 = 1
    /\ \E ok \in (IF Parseable(atask) THEN BOOLEAN ELSE {FALSE}) :
         /\ Affordable(Cost(ok, Parseable(atask)))
         /\ deviations' = deviations + Cost(ok, Parseable(atask))
         /\ IF ok
            THEN /\ parsed_data' = ParsedData(atask)
                 /\ UNCHANGED <<aresult, apc>>
            ELSE /\ aresult' = ParseFailure(atask)
                 /\ apc' = "returned"
                 /\ UNCHANGED parsed_data
    /\ iteration' = iteration + 1
    /\ UNCHANGED <<backend, store, workspace, appDB, orchVars, atask, strategy,
                   invoked, inflight, generated, personalized, outcomes, contentCalls, obsVars, history, calls>>

\* Iteration 2: generate the strategy, break when it is complete
StrategyGenerate ==
    /\ apc = "strategy_loop"
    /\ iteration < max_iterations
    /\ iteration + 1 = 2
    /\ \E reply \in StrategyReplies :
         /\ Affordable(Cost(reply, LLMComplete))
         /\ deviations' = deviations + Cost(reply, LLMComplete)
         /\ strategy' = generate_strategy(reply, atask.user_id)
    /\ generated' = Append(generated, strategy')
    /\ iteration' = iteration + 1
    /\ apc' = IF StrategyComplete(strategy') THEN "strategy_final" ELSE "strategy_loop"
    /\ UNCHANGED <<backend, store, workspace, appDB, orchVars, atask, aresult,
                   parsed_data, invoked, inflight, personalized, outcomes, contentCalls, obsVars, history, calls>>

\* Iteration 3: generate only when no strategy was assigned, then break
StrategyLastIteration ==
    /\ apc = "strategy_loop"
    /\ iteration < max_iterations
    /\ iteration + 1 = 3
    /\ IF strategy = Unset
       THEN /\ \E reply \in StrategyReplies :
                 /\ Affordable(Cost(reply, LLMComplete))
                 /\ deviations' = deviations + Cost(reply, LLMComplete)
                 /\ strategy' = generate_strategy(reply, atask.user_id)
            /\ generated' = Append(generated, strategy')
       ELSE UNCHANGED <<strategy, generated, deviations>>
    /\ iteration' = iteration + 1
    /\ apc' = "strategy_final"
    /\ UNCHANGED <<backend, store, workspace, appDB, orchVars, atask, aresult,
                   parsed_data, invoked, inflight, personalized, outcomes, contentCalls, obsVars, history, calls>>

\* The profile of the final result: user_id, resume_text, **parsed_data
StrategyProfile ==
    Merge([user_id |-> atask.user_id,
           resume_text |-> IF atask.resume_text = "" /\ parsed_data.resume_text # ""
                           THEN parsed_data.resume_text ELSE atask.resume_text],
          parsed_data)

\* Lines 101-193: result, update_context, publish_output; a failing store
\* command lands in the outer except.
StrategyFinal ==
    /\ apc = "strategy_final"
    /\ \E fault \in StoreFaults, db_ok \in BOOLEAN :
         /\ Affordable(Cost(fault, "none") + Cost(db_ok, TRUE))
         /\ deviations' = deviations + Cost(fault, "none") + Cost(db_ok, TRUE)
         /\ dbLog' = [invocation |-> Len(invoked), ok |-> db_ok]
         /\ LET result == [success |-> TRUE, profile |-> StrategyProfile,
                           strategy |-> strategy, react_iterations |-> iteration]
            IN  AgentStores(fault, "strategy_agent", AfterPersistence(result, db_ok),
                            [profile |-> result.profile, strategy |-> strategy])
    /\ apc' = "returned"
    /\ UNCHANGED <<backend, appDB, pc, req, results, top_jobs, idx, applications,
                   ret, atask, iteration, parsed_data, strategy,
                   invoked, inflight, generated, personalized, outcomes, contentCalls,
                   marketLog, contentResults, http, trackerVars, guardVars,
                   history, calls>>

---------------------------------------------------------------------------
(* MarketIntelligenceAgent *)

\* JobSearchAPI.execute: the provider answers with n postings, or fails and
\* hands back the placeholder list with success=false.
MockJobs ==
    <<[job_id |-> "mock_1", title |-> "t", posted_at |-> "None"],
      [job_id |-> "mock_2", title |-> "t", posted_at |-> "None"]>>

SearchOk(n)      == [success |-> TRUE, jobs |-> [i \in 1..n |-> JobPosting(i)], count |-> n]
SearchFailed     == [success |-> FALSE, jobs |-> MockJobs, count |-> Len(MockJobs)]
SearchResults    == {SearchOk(n) : n \in 0..MaxJobs} \cup {SearchFailed}
NominalSearch    == SearchOk(MaxJobs)

\* Replies of the ranking prompt for a job list: the call raises, or returns
\* a JSON array of {job_id, relevance_score}.
Ranking(job, score) == [job_id |-> job.job_id, relevance_score |-> score]

RankRaises       == [ok |-> FALSE, rankings |-> << >>]
RankNone         == [ok |-> TRUE, rankings |-> << >>]
RankAll(jobs)    == [ok |-> TRUE,
                     rankings |-> [i \in 1..Len(jobs) |-> Ranking(jobs[i], 2 * i)]]
RankLast(jobs)   == [ok |-> TRUE, rankings |-> <<Ranking(jobs[Len(jobs)], 9)>>]
RankFirst(jobs)  == [ok |-> TRUE, rankings |-> <<Ranking(jobs[1], 2),
                                                 [job_id |-> "other", relevance_score |-> 9]>>]
\* The reply names the first job twice, with two scores.
RankTwice(jobs)  == [ok |-> TRUE, rankings |-> <<Ranking(jobs[1], 9), Ranking(jobs[1], 3)>>]
\* The reply gives the last job a score above 1.0.
RankTooHigh(jobs) == [ok |-> TRUE, rankings |-> <<Ranking(jobs[1], 7),
                                                  Ranking(jobs[Len(jobs)], 12)>>]
\* With an empty job list _rank_jobs returns before the prompt is issued.
RankReplies(jobs) ==
    IF jobs = << >> THEN {RankNone}
    ELSE {RankRaises, RankNone, RankAll(jobs), RankLast(jobs), RankFirst(jobs),
          RankTwice(jobs), RankTooHigh(jobs)}

Match(job, score) == [job |-> job, relevance_score |-> score]

JobIdsOf(jobs) == {jobs[i].job_id : i \in DOMAIN jobs}

MatchIdsOf(matches) == {matches[i].job.job_id : i \in DOMAIN matches}

\* JobMatch(relevance_score=...) validates 0.0 <= score <= 1.0
\* Variant: no upper limit on the score.
ValidScoreNoCeiling(score) == 0 <= score
ValidScore(score) == 0 <= score /\ score <= 10

\* list.sort(key=relevance_score, reverse=True): stable, descending
RECURSIVE InsertDesc(_, _)
InsertDesc(s, m) ==
    IF s = << >> THEN <<m>>
    ELSE IF Head(s).relevance_score >= m.relevance_score
         THEN <<Head(s)>> \o InsertDesc(Tail(s), m)
         ELSE <<m>> \o s

RECURSIVE SortDesc(_)
SortDesc(s) ==
    IF s = << >> THEN << >>
    ELSE InsertDesc(SortDesc(SubSeq(s, 1, Len(s) - 1)), s[Len(s)])

\* Lines 253-272: one match per ranking entry whose job_id is a known job
RECURSIVE ScoredMatches(_, _)
ScoredMatches(rankings, jobs) ==
    IF rankings = << >> THEN << >>
    ELSE LET r    == Head(rankings)
             rest == ScoredMatches(Tail(rankings), jobs)
         IN  IF r.job_id \in JobIdsOf(jobs)
             THEN <<Match(jobs[CHOOSE i \in DOMAIN jobs : jobs[i].job_id = r.job_id],
                          r.relevance_score)>> \o rest
             ELSE rest

\* Lines 274-290: the jobs the reply did not mention, with the default score
RECURSIVE UnscoredMatches(_, _)
UnscoredMatches(jobs, ranked_job_ids) ==
    IF jobs = << >> THEN << >>
    ELSE IF Head(jobs).job_id \in ranked_job_ids
         THEN UnscoredMatches(Tail(jobs), ranked_job_ids)
         ELSE <<Match(Head(jobs), DefaultScore)>>
              \o UnscoredMatches(Tail(jobs), ranked_job_ids)

\* Lines 297-309: every job with the default score, in input order
RankFallback(jobs) == [i \in DOMAIN jobs |-> Match(jobs[i], DefaultScore)]

\* _rank_jobs
rank_jobs(jobs, reply) ==
    IF jobs = << >> THEN << >>
    ELSE IF ~reply.ok THEN RankFallback(jobs)
    ELSE LET scored == ScoredMatches(reply.rankings, jobs)
             ids    == {scored[i].job.job_id : i \in DOMAIN scored}
         IN  IF \E i \in DOMAIN scored : ~ValidScore(scored[i].relevance_score)
             THEN RankFallback(jobs)
             ELSE SortDesc(scored \o UnscoredMatches(jobs, ids))

\* _build_search_query
build_search_query(profile, strat) ==
    IF Get(strat, "target_positions", << >>) # << >>
    THEN strat.target_positions[1]
    ELSE IF Get(profile, "skills", << >>) # << >>
         THEN "skills of the profile"
         ELSE "default query"

\* process
MarketProcess ==
    /\ apc = "market_intelligence_agent"
    /\ LET profile == Get(context, "profile", Empty)
           strat   == Get(context, "strategy", Empty)
       IN  \E search \in SearchResults :
             IF ~search.success
             THEN /\ Affordable(Cost(search, NominalSearch))
                  /\ deviations' = deviations + Cost(search, NominalSearch)
                  /\ aresult' = search
                  /\ marketLog' = [search |-> search, reply |-> Unset]
                  /\ UNCHANGED <<store, workspace, context, jcontext, dbLog, twinVars>>
             ELSE \E reply \in RankReplies(search.jobs), fault \in StoreFaults,
                     db_ok \in BOOLEAN :
                  LET cost      == Cost(search, NominalSearch)
                                   + Cost(reply, RankAll(search.jobs))
                                   + Cost(fault, "none") + Cost(db_ok, TRUE)
                      ranked    == rank_jobs(search.jobs, reply)
                      jobs_data == Take(ranked, MaxRanked)
                      result    == [success |-> TRUE, jobs |-> jobs_data,
                                    total_found |-> Len(jobs_data),
                                    search_query |-> build_search_query(profile, strat)]
                  IN  /\ Affordable(cost)
                      /\ deviations' = deviations + cost
                      /\ marketLog' = [search |-> search, reply |-> reply]
                      /\ dbLog' = [invocation |-> Len(invoked), ok |-> db_ok]
                      /\ AgentStores(fault, "market_intelligence_agent",
                                     AfterPersistence(result, db_ok),
                                     [job_matches |-> jobs_data])
    /\ apc' = "returned"
    /\ UNCHANGED <<backend, appDB, pc, req, results, top_jobs, idx, applications,
                   ret, atask, iteration, parsed_data, strategy,
                   invoked, inflight, generated, personalized, outcomes, contentCalls,
                   contentResults, http, trackerVars, guardVars, history, calls>>

---------------------------------------------------------------------------
(* PersonalizationAgent *)

\* Lines 30-36: linear scan of the job matches for the job id
FindJob(job_matches, job_id) ==
    IF \E i \in DOMAIN job_matches : job_matches[i].job.job_id = job_id
    THEN job_matches[CHOOSE i \in DOMAIN job_matches :
                        /\ job_matches[i].job.job_id = job_id
                        /\ \A k \in 1..(i - 1) : job_matches[k].job.job_id # job_id].job
    ELSE Unset

\* ContentGenerator.execute: the generated text, or the failure object its
\* generators return when the model call raises.
ContentResult(content_type, ok) ==
    IF ok
    THEN [success |-> TRUE, content |-> "text of " \o content_type, type |-> content_type]
    ELSE [success |-> FALSE, error |-> "generation error"]

\* Variant: a failed generation leaves its error text in the field.
ApplicationErrorText(user_id, job_id, cover_letter_result, adapted_resume_result) ==
    [application_id |-> "app_" \o user_id \o "_" \o job_id,
     user_id |-> user_id, job_id |-> job_id, status |-> "draft",
     cover_letter |-> IF Get(cover_letter_result, "success", FALSE)
                      THEN cover_letter_result.content ELSE cover_letter_result.error,
     adapted_resume |-> IF Get(adapted_resume_result, "success", FALSE)
                        THEN adapted_resume_result.content
                        ELSE adapted_resume_result.error]

\* Lines 68-75
Application(user_id, job_id, cover_letter_result, adapted_resume_result) ==
    [application_id |-> "app_" \o user_id \o "_" \o job_id,
     user_id |-> user_id, job_id |-> job_id, status |-> "draft",
     cover_letter |-> IF Get(cover_letter_result, "success", FALSE)
                      THEN cover_letter_result.content ELSE "None",
     adapted_resume |-> IF Get(adapted_resume_result, "success", FALSE)
                        THEN adapted_resume_result.content ELSE "None"]

\* Lines 84-119: insert the row, or overwrite status and texts of the
\* existing one; a failing database leaves the table as it was.
SaveApplication(db, app, db_ok) ==
    IF ~db_ok THEN db
    ELSE [db EXCEPT ![app.job_id] =
            IF @ = NoApp
            THEN [status |-> app.status, cover_letter |-> app.cover_letter,
                  adapted_resume |-> app.adapted_resume,
                  submitted_at |-> NoTime, viewed_at |-> NoTime,
                  interview_at |-> NoTime]
            ELSE [@ EXCEPT !.status = app.status,
                           !.cover_letter = app.cover_letter,
                           !.adapted_resume = app.adapted_resume]]

\* process
PersonalizationProcess ==
    /\ apc = "personalization_agent"
    /\ LET job == FindJob(Get(context, "job_matches", << >>), atask.job_id)
       IN  IF job = Unset
           THEN /\ aresult' = [success |-> FALSE, error |-> "Job not found in matches"]
                /\ contentResults' = << >>
                /\ UNCHANGED <<store, workspace, appDB, context, jcontext,
                               contentCalls, deviations, dbLog, twinVars>>
           ELSE \E cover_ok \in BOOLEAN, resume_ok \in BOOLEAN,
                   db_ok \in BOOLEAN, fault \in StoreFaults :
                LET cost == Cost(cover_ok, TRUE) + Cost(resume_ok, TRUE)
                            + Cost(db_ok, TRUE) + Cost(fault, "none")
                    cover_letter_result   == ContentResult("cover_letter", cover_ok)
                    adapted_resume_result == ContentResult("adapted_resume", resume_ok)
                    application == Application(atask.user_id, atask.job_id,
                                               cover_letter_result, adapted_resume_result)
                    result == [success |-> TRUE, application |-> application,
                               cover_letter_generated |->
                                   Get(cover_letter_result, "success", FALSE),
                               resume_adapted |->
                                   Get(adapted_resume_result, "success", FALSE)]
                IN  /\ Affordable(cost)
                    /\ deviations' = deviations + cost
                    /\ contentCalls' = contentCalls + 2
                    /\ contentResults' = <<cover_letter_result, adapted_resume_result>>
                    /\ appDB' = SaveApplication(appDB, application, db_ok)
                    /\ dbLog' = [invocation |-> Len(invoked), ok |-> db_ok]
                    /\ AgentStores(fault, "personalization_agent",
                                   AfterPersistence(result, db_ok),
                                   [application |-> application])
    /\ apc' = "returned"
    /\ UNCHANGED <<backend, pc, req, results, top_jobs, idx, applications,
                   ret, atask, iteration, parsed_data, strategy,
                   invoked, inflight, generated, personalized, outcomes,
                   marketLog, http, trackerVars, guardVars, history, calls>>

---------------------------------------------------------------------------
(* Orchestrator *)

SessionId == req.session_id

\* The call of an agent's process and its return
Invoke(agent, task) ==
    /\ apc' = agent
    /\ atask' = task
    /\ invoked' = Append(invoked, agent)
    /\ inflight' = inflight + 1
    /\ UNCHANGED <<aresult, iteration, parsed_data, strategy>>

Returned == apc = "returned"

Resume ==
    /\ apc' = "idle"
    /\ inflight' = inflight - 1
    /\ UNCHANGED <<atask, aresult, iteration, parsed_data, strategy, invoked>>

\* "completed" if result.get("success") else "failed"
StatusOf(result) == IF Get(result, "success", FALSE) THEN "completed" ELSE "failed"

\* The strategy task built from the payload (lines 66-87 and 108-128)
StrategyTask ==
    [session_id |-> SessionId, user_id |-> req.user_id,
     resume_text |-> Get(req.input_data, "resume_text", ""),
     resume_pdf |-> Get(req.input_data, "resume_pdf", "None")]

\* The task_request _create_application works on: the caller's, or inside
\* _full_journey a copy whose input_data names the job of this pass.
AppTask ==
    IF req.task_type = "full_journey"
    THEN [req EXCEPT !.input_data = [job_id |-> top_jobs[idx].job.job_id]]
    ELSE req

\* execute_task, lines 25-52: the context is (re)initialised, then dispatch
execute_task(task_type, sid, input_data) ==
    /\ pc \in {"idle", "done"}
    /\ calls < MaxCalls
    /\ calls' = calls + 1
    /\ history' = IF pc = "done"
                  THEN history \cup
                       {[session_id |-> req.session_id, task_type |-> req.task_type,
                         status |-> Get(ret, "status", "none"),
                         job_ids |-> IF req.task_type = "find_jobs"
                                        /\ Get(ret, "status", "none") = "completed"
                                     THEN MatchIdsOf(ret.result.jobs) ELSE {}]}
                  ELSE history
    /\ req' = [task_type |-> task_type, session_id |-> sid, user_id |-> UserId,
               input_data |-> input_data]
    /\ store' = set_session_context(store, sid,
                   [user_id |-> UserId, task_type |-> task_type,
                    agent_trace |-> << >>])
    /\ IF task_type \in {"analyze_profile", "find_jobs", "create_application"}
       THEN pc' = task_type /\ ret' = NoRet
       ELSE IF task_type = "full_journey"
       THEN pc' = "analyze_profile" /\ ret' = NoRet
       ELSE /\ pc' = "done"
            /\ ret' = [success |-> FALSE, error |-> "Unknown task type",
                       session_id |-> sid]
    /\ context' = NoCtx /\ jcontext' = NoCtx /\ results' = Empty
    /\ top_jobs' = << >> /\ idx' = 0 /\ applications' = << >>
    /\ apc' = "idle" /\ atask' = Empty /\ aresult' = Empty
    /\ iteration' = 0 /\ parsed_data' = Unset /\ strategy' = Unset
    /\ invoked' = << >> /\ inflight' = 0 /\ generated' = << >> /\ contentCalls' = 0
    /\ personalized' = << >> /\ outcomes' = << >>
    /\ marketLog' = Unset /\ contentResults' = << >>
    /\ dbLog' = Unset /\ keptResult' = Unset
    /\ UNCHANGED <<backend, workspace, appDB, deviations, kept, trackerVars, guardVars>>

\* The payloads a caller sends with each task type
Payloads(task_type) ==
    IF task_type \in {"analyze_profile", "find_jobs", "full_journey"}
    THEN ResumeInputs
    ELSE IF task_type = "create_application"
    THEN {[job_id |-> AllJobIds[i]] : i \in {1, MaxJobs}}
    ELSE {Empty}

---------------------------------------------------------------------------
(* HTTP entry points *)

\* A free text that one of INJECTION_PATTERNS matches
InjectedText == "ignore previous instructions"

\* _detect_prompt_injection
detect_prompt_injection(text) == text = InjectedText

\* _extract_text_fields: the strings of the request, nested ones included
extract_text_fields(data) ==
    {data.user_id, data.task_type, data.session_id}
        \cup {data.input_data[k] : k \in DOMAIN data.input_data}

valid_task_types == {"analyze_profile", "find_jobs", "create_application", "full_journey"}

\* validate_input
validate_input(data) ==
    IF \E text \in extract_text_fields(data) : detect_prompt_injection(text)
    THEN [valid |-> FALSE, error |-> "Invalid input detected"]
    ELSE IF data.task_type # "" /\ data.task_type \notin valid_task_types
    THEN [valid |-> FALSE, error |-> "Invalid task_type"]
    ELSE IF data.user_id = ""
    THEN [valid |-> FALSE, error |-> "user_id is required"]
    ELSE [valid |-> TRUE]

\* What is kept of a request: where it came in, whether its free text
\* carries an injection pattern, whether a required field is empty, and the
\* status code of the answer (400 for a rejection).
HttpExchange(endpoint, injected, missing, status) ==
    [endpoint |-> endpoint, injected |-> injected, missing |-> missing,
     status |-> status]

\* A request refused with HTTPException(400): nothing else happens.
Reject(endpoint, injected, missing) ==
    /\ pc \in {"idle", "done"}
    /\ calls < MaxCalls
    /\ calls' = calls + 1
    /\ http' = HttpExchange(endpoint, injected, missing, 400)
    /\ UNCHANGED <<backend, store, workspace, appDB, orchVars, agentVars,
                   invoked, inflight, generated, personalized, outcomes, contentCalls,
                   marketLog, contentResults, dbLog, twinVars, trackerVars, guardVars,
                   history, deviations>>

\* The bodies POST /api/tasks is called with
TaskInputs(task_type) ==
    Payloads(task_type) \cup {[resume_text |-> InjectedText, resume_pdf |-> "None"]}

\* POST /api/tasks
create_task ==
    \E user_id \in {UserId, ""}, task_type \in TaskTypes \cup {""}, sid \in Sessions :
      \E input_data \in TaskInputs(task_type) :
        LET data     == [user_id |-> user_id, task_type |-> task_type,
                         input_data |-> input_data, session_id |-> sid]
            injected == \E k \in DOMAIN input_data : input_data[k] = InjectedText
        IN  IF ~validate_input(data).valid
            THEN Reject("/api/tasks", injected, user_id = "")
            ELSE /\ execute_task(task_type, sid, input_data)
                 /\ http' = HttpExchange("/api/tasks", injected, user_id = "", 200)

\* The resume texts and files POST /api/resume/full-journey is called with
UploadTexts == {"", "short", "resume text", InjectedText}
UploadFiles == {"None", "cv.pdf", "cv.txt"}

\* len(resume_text) < 10 (line 358)
TooShort(resume_text) == resume_text = "short"

\* POST /api/resume/full-journey: the session id is a fresh uuid and a
\* missing user_id is generated (the one user id stands for it); a file, when
\* given, takes precedence over the text.
upload_resume_and_full_journey ==
    \E file \in UploadFiles, resume_text \in UploadTexts, sid \in Sessions :
      LET has_file == file # "None"
          has_text == resume_text # ""
          injected == resume_text = InjectedText
          missing  == ~has_file /\ ~has_text
          endpoint == "/api/resume/full-journey"
      IN  /\ store[sid] = NoCtx
          /\ IF missing \/ (has_file /\ file # "cv.pdf")
                \/ (~has_file /\ TooShort(resume_text))
             THEN Reject(endpoint, injected, missing)
             ELSE /\ execute_task("full_journey", sid,
                        IF has_file
                        THEN [resume_text |-> "", resume_pdf |-> "bytes"]
                        ELSE [resume_text |-> resume_text, resume_pdf |-> "None"])
                  /\ http' = HttpExchange(endpoint, injected, missing, 200)

\* Variant: the status of a step's result is not looked at.
CompletedAlways(R) == TRUE

\* result.get("status") == "completed" (lines 197, 203, 233)
Completed(R) == Get(R, "status", "none") = "completed"

\* How each sub-workflow's return value is used by its caller: execute_task
\* returns it, _full_journey goes on (lines 195-204 and 231-239).
ReturnFromAnalyze(R) ==
    IF req.task_type = "full_journey"
    THEN /\ results' = Merge(results, [profile_analysis |-> R])
         /\ IF ~Completed(R)
            THEN ret' = R /\ pc' = "done"
            ELSE ret' = ret /\ pc' = "find_jobs"
         /\ UNCHANGED <<applications, idx>>
    ELSE /\ ret' = R /\ pc' = "done"
         /\ UNCHANGED <<results, applications, idx>>

ReturnFromFindJobs(R) ==
    IF req.task_type = "full_journey"
    THEN /\ results' = Merge(results, [job_search |-> R])
         /\ IF ~Completed(R)
            THEN ret' = R /\ pc' = "done"
            ELSE ret' = ret /\ pc' = "full_journey_step3"
         /\ UNCHANGED <<applications, idx>>
    ELSE /\ ret' = R /\ pc' = "done"
         /\ UNCHANGED <<results, applications, idx>>

ReturnFromCreate(R) ==
    IF req.task_type = "full_journey"
    THEN /\ applications' =
              IF Completed(R)
              THEN Append(applications,
                          [job_id |-> top_jobs[idx].job.job_id,
                           job_title |-> Get(top_jobs[idx].job, "title", ""),
                           application |-> Get(R, "result", Empty)])
              ELSE applications
         /\ idx' = idx + 1
         /\ pc' = "full_journey_loop"
         /\ UNCHANGED <<ret, results>>
    ELSE /\ ret' = R /\ pc' = "done"
         /\ UNCHANGED <<results, applications, idx>>

\* _analyze_profile up to the await (lines 63-89)
analyze_profile_call ==
    /\ pc = "analyze_profile"
    /\ LET ctx == TraceAppend(get_session_context(store, SessionId), "strategy_agent")
       IN  /\ context' = ctx
           /\ store' = StoreAfterLocal(store, SessionId, ctx)
    /\ Invoke("strategy_agent", StrategyTask)
    /\ pc' = "analyze_profile_wait"
    /\ UNCHANGED <<backend, workspace, appDB, req, jcontext, results, top_jobs, idx,
                   applications, ret, generated, personalized, outcomes, contentCalls, obsVars, history, calls,
                   deviations>>

\* _analyze_profile after the await (lines 90-98)
analyze_profile_return ==
    /\ pc = "analyze_profile_wait"
    /\ Returned
    /\ store' = update_session_context(store, SessionId, context)
    /\ ReturnFromAnalyze([session_id |-> SessionId, status |-> StatusOf(aresult),
                          result |-> aresult,
                          agent_trace |-> context["agent_trace"]])
    /\ Resume
    /\ UNCHANGED <<backend, workspace, appDB, req, context, jcontext, top_jobs,
                   generated, personalized, outcomes, contentCalls, obsVars, history, calls, deviations>>

\* _find_jobs up to its first await (lines 102-129 or 102-105, 141-147)
find_jobs_call ==
    /\ pc = "find_jobs"
    /\ LET ctx   == get_session_context(store, SessionId)
           agent == IF ~Has(ctx, "profile") THEN "strategy_agent"
                    ELSE "market_intelligence_agent"
           ctx1  == TraceAppend(ctx, agent)
       IN  /\ context' = ctx1
           /\ store' = StoreAfterLocal(store, SessionId, ctx1)
           /\ IF ~Has(ctx, "profile")
              THEN /\ Invoke("strategy_agent", StrategyTask)
                   /\ pc' = "find_jobs_strategy"
              ELSE /\ Invoke("market_intelligence_agent",
                             [session_id |-> SessionId, user_id |-> req.user_id])
                   /\ pc' = "find_jobs_market"
    /\ UNCHANGED <<backend, workspace, appDB, req, jcontext, results, top_jobs, idx,
                   applications, ret, generated, personalized, outcomes, contentCalls, obsVars, history, calls,
                   deviations>>

\* _find_jobs between the strategy agent and the market agent (lines 130-147)
find_jobs_after_strategy ==
    /\ pc = "find_jobs_strategy"
    /\ Returned
    /\ IF ~Get(aresult, "success", FALSE)
       THEN /\ ReturnFromFindJobs([session_id |-> SessionId, status |-> "failed",
                                   error |-> "Profile analysis failed",
                                   agent_trace |-> context["agent_trace"]])
            /\ Resume
            /\ UNCHANGED <<store, context>>
       ELSE LET ctx == TraceAppend(get_session_context(store, SessionId),
                                   "market_intelligence_agent")
            IN  /\ context' = ctx
                /\ store' = StoreAfterLocal(store, SessionId, ctx)
                /\ apc' = "market_intelligence_agent"
                /\ atask' = [session_id |-> SessionId, user_id |-> req.user_id]
                /\ invoked' = Append(invoked, "market_intelligence_agent")
                /\ inflight' = inflight - 1 + 1
                /\ pc' = "find_jobs_market"
                /\ UNCHANGED <<aresult, iteration, parsed_data, strategy,
                               ret, results, applications, idx>>
    /\ UNCHANGED <<backend, workspace, appDB, req, jcontext, top_jobs,
                   generated, personalized, outcomes, contentCalls, obsVars, history, calls, deviations>>

\* _find_jobs after the market agent (lines 148-156)
find_jobs_return ==
    /\ pc = "find_jobs_market"
    /\ Returned
    /\ store' = update_session_context(store, SessionId, context)
    /\ ReturnFromFindJobs([session_id |-> SessionId, status |-> StatusOf(aresult),
                           result |-> aresult,
                           agent_trace |-> context["agent_trace"]])
    /\ Resume
    /\ UNCHANGED <<backend, workspace, appDB, req, context, jcontext, top_jobs,
                   generated, personalized, outcomes, contentCalls, obsVars, history, calls, deviations>>

\* Variant: the prerequisite check is missing.
HasJobMatchesAlways(ctx) == TRUE

\* "job_matches" in context (line 163)
HasJobMatches(ctx) == Has(ctx, "job_matches")

\* _create_application up to the await (lines 160-179)
create_application_call ==
    /\ pc = "create_application"
    /\ LET ctx    == get_session_context(store, SessionId)
           job_id == Get(AppTask.input_data, "job_id", "None")
       IN  IF ~HasJobMatches(ctx)
           THEN /\ ReturnFromCreate(
                     [session_id |-> SessionId, status |-> "failed",
                      error |-> "Job matches not found. Run find_jobs first.",
                      agent_trace |-> Get(ctx, "agent_trace", << >>)])
                /\ context' = ctx
                /\ outcomes' = Append(outcomes, [job_id |-> job_id, status |-> "failed"])
                /\ UNCHANGED <<store, agentVars, invoked, inflight, personalized>>
           ELSE LET ctx1 == TraceAppend(ctx, "personalization_agent")
                IN  /\ context' = ctx1
                    /\ store' = StoreAfterLocal(store, SessionId, ctx1)
                    /\ Invoke("personalization_agent",
                              [session_id |-> SessionId, user_id |-> AppTask.user_id,
                               job_id |-> job_id])
                    /\ personalized' = Append(personalized, job_id)
                    /\ pc' = "create_application_wait"
                    /\ UNCHANGED <<ret, results, applications, idx, outcomes>>
    /\ jcontext' = IF jcontext = NoCtx THEN NoCtx ELSE Alias(jcontext, store', SessionId)
    /\ UNCHANGED <<backend, workspace, appDB, req, top_jobs,
                   generated, contentCalls, obsVars, history, calls, deviations>>

\* _create_application after the await (lines 180-188)
create_application_return ==
    /\ pc = "create_application_wait"
    /\ Returned
    /\ store' = update_session_context(store, SessionId, context)
    /\ ReturnFromCreate([session_id |-> SessionId, status |-> StatusOf(aresult),
                         result |-> aresult,
                         agent_trace |-> context["agent_trace"]])
    /\ outcomes' = Append(outcomes, [job_id |-> atask.job_id,
                                     status |-> StatusOf(aresult)])
    /\ Resume
    /\ jcontext' = IF jcontext = NoCtx THEN NoCtx ELSE Alias(jcontext, store', SessionId)
    /\ UNCHANGED <<backend, workspace, appDB, req, context, top_jobs,
                   generated, personalized, contentCalls, obsVars, history, calls, deviations>>

\* Variant: the slice is one too long.
TopJobsOneMore(job_matches) == Take(job_matches, TopN + 1)

\* job_matches[:3] (line 212)
TopJobs(job_matches) == Take(job_matches, TopN)

\* The lists inside the sub-results are the list objects of the contexts they
\* were taken from: with the fallback store that is the stored list, which
\* has grown since.
ObservedResults(res, st) ==
    IF backend = "fallback"
    THEN [k \in DOMAIN res |->
            IF k \in {"profile_analysis", "job_search"}
            THEN [res[k] EXCEPT !.agent_trace = st[SessionId]["agent_trace"]]
            ELSE res[k]]
    ELSE res

\* The return value of _full_journey (lines 244-250)
JourneyResult(res, ctx, st) ==
    [session_id |-> SessionId, status |-> "completed",
     result |-> ObservedResults(res, st),
     agent_trace |-> Get(ctx, "agent_trace", << >>)]

\* _full_journey, lines 207-213: the context is read once for the journey
full_journey_step3 ==
    /\ pc = "full_journey_step3"
    /\ LET ctx         == get_session_context(store, SessionId)
           job_matches == Get(ctx, "job_matches", << >>)
       IN  /\ jcontext' = ctx
           /\ IF job_matches # << >>
              THEN /\ top_jobs' = TopJobs(job_matches)
                   /\ applications' = << >>
                   /\ idx' = 1
                   /\ pc' = "full_journey_loop"
                   /\ ret' = ret
              ELSE /\ ret' = JourneyResult(results, ctx, store)
                   /\ pc' = "done"
                   /\ UNCHANGED <<top_jobs, applications, idx>>
    /\ UNCHANGED <<backend, store, workspace, appDB, req, context, results,
                   agentVars, logVars>>

\* _full_journey, lines 215-250: next pass of the loop, or the return
full_journey_loop ==
    /\ pc = "full_journey_loop"
    /\ IF idx <= Len(top_jobs)
       THEN /\ IF Get(top_jobs[idx].job, "job_id", "") = ""
               THEN idx' = idx + 1 /\ pc' = pc
               ELSE idx' = idx /\ pc' = "create_application"
            /\ UNCHANGED <<results, ret>>
       ELSE LET res == Merge(results, [applications |-> applications,
                                       applications_count |-> Len(applications)])
            IN  /\ results' = res
                /\ ret' = JourneyResult(res, jcontext, store)
                /\ pc' = "done"
                /\ idx' = idx
    /\ UNCHANGED <<backend, store, workspace, appDB, req, context, jcontext,
                   top_jobs, applications, agentVars, logVars>>

---------------------------------------------------------------------------
(* Specification *)

\* Everything but the backend and the workspace records at start
InitOthers ==
    /\ store = [s \in Sessions |-> NoCtx]
    /\ appDB = [j \in JobIdSet |-> NoApp]
    /\ pc = "idle"
    /\ req = Empty
    /\ context = NoCtx
    /\ jcontext = NoCtx
    /\ results = Empty
    /\ top_jobs = << >>
    /\ idx = 0
    /\ applications = << >>
    /\ ret = NoRet
    /\ apc = "idle"
    /\ atask = Empty
    /\ aresult = Empty
    /\ iteration = 0
    /\ parsed_data = Unset
    /\ strategy = Unset
    /\ invoked = << >>
    /\ inflight = 0
    /\ generated = << >>
    /\ personalized = << >>
    /\ outcomes = << >>
    /\ contentCalls = 0
    /\ marketLog = Unset
    /\ contentResults = << >>
    /\ http = NoHttp
    /\ dbLog = Unset
    /\ kept = workspace
    /\ keptResult = Unset
    /\ now = 0
    /\ kpi = Unset
    /\ statusLog = [j \in JobIdSet |-> << >>]
    /\ raw = Empty
    /\ sanitized = Unset
    /\ tresult = Unset
    /\ history = {}
    /\ calls = 0
    /\ deviations = 0

Init ==
    /\ backend \in {"redis", "fallback"}
    /\ workspace = [s \in Sessions |-> NoWs]
    /\ InitOthers

Next ==
    \/ create_task
    \/ upload_resume_and_full_journey
    \/ analyze_profile_call
    \/ analyze_profile_return
    \/ find_jobs_call
    \/ find_jobs_after_strategy
    \/ find_jobs_return
    \/ create_application_call
    \/ create_application_return
    \/ full_journey_step3
    \/ full_journey_loop
    \/ StrategyEnter
    \/ StrategyParse
    \/ StrategyGenerate
    \/ StrategyLastIteration
    \/ StrategyFinal
    \/ MarketProcess
    \/ PersonalizationProcess

Spec == Init /\ [][Next]_vars

---------------------------------------------------------------------------
(* Application tracker: the applications table under AnalyticsAgent and    *)
(* the persistence block of PersonalizationAgent.  Timestamps are readings *)
(* of a clock that ticks at every operation; 0 stands for None.            *)

nonTrackerVars == <<backend, store, workspace, orchVars, agentVars,
                    invoked, inflight, generated, personalized, outcomes, contentCalls,
                    marketLog, contentResults, http, dbLog, twinVars, guardVars,
                    history, calls, deviations>>

\* ApplicationStatus
ApplicationStatuses == {"draft", "submitted", "viewed", "interview", "rejected", "accepted"}

\* The statuses a caller asks for: the valid ones and one that is not
RequestedStatuses == ApplicationStatuses \cup {"archived"}

TrackedJobs == {AllJobIds[i] : i \in 1..MaxTracked}

\* Variant: the timestamp is written at every update to the status.
UpdateStatusStampsAgain(row, new_status, t) ==
    IF new_status = "viewed"
    THEN [row EXCEPT !.status = new_status, !.viewed_at = t]
    ELSE IF new_status = "interview"
    THEN [row EXCEPT !.status = new_status, !.interview_at = t]
    ELSE [row EXCEPT !.status = new_status]

\* Lines 106-113 (updated_at is left out)
UpdateStatus(row, new_status, t) ==
    IF new_status = "viewed" /\ row.viewed_at = NoTime
    THEN [row EXCEPT !.status = new_status, !.viewed_at = t]
    ELSE IF new_status = "interview" /\ row.interview_at = NoTime
    THEN [row EXCEPT !.status = new_status, !.interview_at = t]
    ELSE [row EXCEPT !.status = new_status]

\* AnalyticsAgent._update_application_status
update_application_status ==
    /\ now < MaxTicks
    /\ now' = now + 1
    /\ \E job_id \in TrackedJobs, new_status \in RequestedStatuses :
         IF appDB[job_id] = NoApp
         THEN /\ tresult' = [success |-> FALSE, error |-> "Application not found"]
              /\ UNCHANGED <<appDB, statusLog>>
         ELSE IF new_status \notin ApplicationStatuses
         THEN /\ tresult' = [success |-> FALSE, error |-> "Invalid status"]
              /\ UNCHANGED <<appDB, statusLog>>
         ELSE /\ appDB' = [appDB EXCEPT ![job_id] = UpdateStatus(@, new_status, now')]
              /\ statusLog' = [statusLog EXCEPT ![job_id] =
                                  Append(@, [status |-> new_status, at |-> now'])]
              /\ tresult' = [success |-> TRUE, job_id |-> job_id, status |-> new_status]
    /\ UNCHANGED <<kpi, nonTrackerVars>>

\* PersonalizationAgent.process, lines 84-119: the row of the application
\* is created, or its status and texts are overwritten.
PersistApplication ==
    /\ now < MaxTicks
    /\ now' = now + 1
    /\ \E job_id \in TrackedJobs, db_ok \in BOOLEAN :
         appDB' = SaveApplication(appDB,
                     Application(UserId, job_id, ContentResult("cover_letter", TRUE),
                                 ContentResult("adapted_resume", TRUE)),
                     db_ok)
    /\ UNCHANGED <<kpi, statusLog, tresult, nonTrackerVars>>

\* sum(1 for app in applications if app.status in statuses)
CountIn(db, statuses) ==
    Cardinality({j \in DOMAIN db : db[j] # NoApp /\ db[j].status \in statuses})

\* A rate is the fraction num/den, in percent.
ZeroRate == [num |-> 0, den |-> 1]

\* Variant: the division is made whatever the total.
RateUnguarded(count, total) == [num |-> count * 100, den |-> total]
\* (count / total_applications * 100) if total_applications > 0 else 0.0
Rate(count, total) ==
    IF total > 0 THEN [num |-> count * 100, den |-> total] ELSE ZeroRate

\* AnalyticsAgent._calculate_kpis: every application of the table is within
\* the 30 days the query looks back.
calculate_kpis ==
    /\ now < MaxTicks
    /\ now' = now + 1
    /\ LET total_applications   == CountIn(appDB, ApplicationStatuses)
           applications_viewed  == CountIn(appDB, {"viewed", "interview", "accepted"})
           interviews_scheduled == CountIn(appDB, {"interview", "accepted"})
           offers_received      == CountIn(appDB, {"accepted"})
       IN  kpi' = [total_applications |-> total_applications,
                   applications_viewed |-> applications_viewed,
                   interviews_scheduled |-> interviews_scheduled,
                   offers_received |-> offers_received,
                   click_through_rate |-> Rate(applications_viewed, total_applications),
                   interview_rate |-> Rate(interviews_scheduled, total_applications),
                   offer_rate |-> Rate(offers_received, total_applications)]
    /\ UNCHANGED <<appDB, statusLog, tresult, nonTrackerVars>>

NextTracker ==
    \/ PersistApplication
    \/ update_application_status
    \/ calculate_kpis

TrackerSpec == Init /\ [][NextTracker]_vars

---------------------------------------------------------------------------
(* Output guard.  A value of a response is a string, a dictionary or a     *)
(* list, tagged with its kind; the response itself is a dictionary from    *)
(* keys to values.                                                         *)

nonGuardVars == <<backend, store, workspace, appDB, orchVars, agentVars,
                  invoked, inflight, generated, personalized, outcomes, contentCalls,
                  marketLog, contentResults, http, dbLog, twinVars, trackerVars,
                  history, calls, deviations>>

Str        == [kind |-> "str"]
Dict(f)    == [kind |-> "dict", items |-> f]
List(q)    == [kind |-> "list", items |-> q]
NoValue    == [kind |-> "absent"]

\* A dictionary with the keys of `keys`, each with its value in `values`
Pick(keys, values) == [k \in keys |-> values[k]]

\* any(sk in key.lower() for sk in sensitive_keys), over the keys in use
SensitiveNames == {"api_key", "Password", "access_token", "client_secret",
                   "password_hash"}
Sensitive(key) == key \in SensitiveNames

\* The nested values a result is made of
ProfileValues == {Dict(Pick(K, [name |-> Str, password_hash |-> Str])) :
                    K \in {{"name"}, {"name", "password_hash"}}}
JobsValues    == {List(<<Dict(Pick(K, [title |-> Str, access_token |-> Str]))>>) :
                    K \in {{"title"}, {"title", "access_token"}}}

ResultValues ==
    {NoValue, Str}
      \cup {Dict(Pick(K, [client_secret |-> Str, profile |-> p, jobs |-> j])) :
               K \in SUBSET {"client_secret", "profile", "jobs"},
               p \in ProfileValues, j \in JobsValues}

\* The objects execute_task may hand to sanitize_output
GuardInputs ==
    {Pick(K \cup (IF r = NoValue THEN {} ELSE {"result"}),
          [status |-> Str, api_key |-> Str, Password |-> Str, result |-> r]) :
       K \in SUBSET {"status", "api_key", "Password"}, r \in ResultValues}

\* _sanitize_dict: a copy, dictionary by dictionary and list by list
RECURSIVE sanitize_dict(_)
sanitize_dict(data) ==
    [key \in DOMAIN data |->
        LET value == data[key]
        IN  IF value.kind = "dict" THEN Dict(sanitize_dict(value.items))
            ELSE IF value.kind = "list"
            THEN List([i \in DOMAIN value.items |->
                         IF value.items[i].kind = "dict"
                         THEN Dict(sanitize_dict(value.items[i].items))
                         ELSE value.items[i]])
            ELSE value]

\* sanitize_output
sanitize_output(data) ==
    LET kept_keys == {key \in DOMAIN data : ~Sensitive(key)}
    IN  [key \in kept_keys |->
            IF key = "result" /\ data[key].kind = "dict"
            THEN Dict(sanitize_dict(data[key].items))
            ELSE data[key]]

\* main.py line 98: sanitized_result = sanitize_output(result)
sanitize ==
    /\ \E data \in GuardInputs :
         /\ raw' = data
         /\ sanitized' = sanitize_output(data)
    /\ UNCHANGED nonGuardVars

NextGuard == sanitize

GuardSpec == Init /\ [][NextGuard]_vars

---------------------------------------------------------------------------
(* Loss of the workspace *)

\* The workspace key of a session expires (ttl=7200) or is evicted while a
\* workflow runs; only Redis drops keys on its own.
LoseWorkspace ==
    /\ backend = "redis"
    /\ pc \notin {"idle", "done"}
    /\ Affordable(1)
    /\ deviations' = deviations + 1
    /\ \E sid \in Sessions :
         /\ workspace[sid] # NoWs
         /\ workspace' = [workspace EXCEPT ![sid] = NoWs]
    /\ UNCHANGED <<backend, store, appDB, orchVars, agentVars,
                   invoked, inflight, generated, personalized, outcomes, contentCalls,
                   obsVars, history, calls>>

\* A workspace record left by an earlier AnalyticsAgent.process call on the
\* session (analytics_agent.py line 43): it outlives the session context,
\* whose ttl is half as long.
EarlierWorkspace == ("analytics_agent" :> [success |-> TRUE])

InitLoss ==
    /\ backend = "redis"
    /\ workspace = [s \in Sessions |-> EarlierWorkspace]
    /\ InitOthers

NextLoss == Next \/ LoseWorkspace

SpecLoss == InitLoss /\ [][NextLoss]_vars

---------------------------------------------------------------------------
(* Properties *)

Range(seq) == {seq[i] : i \in DOMAIN seq}

Min(a, b) == IF a < b THEN a ELSE b

Workflows == {"analyze_profile", "find_jobs", "create_application", "full_journey"}

Done == pc = "done"

IsCompleted(o) == o.status = "completed"

StepFailed(R) == R.status # "completed"

\* The call that ended is a full_journey whose analyze and find_jobs steps
\* both completed.
JourneyRan ==
    /\ Done
    /\ req.task_type = "full_journey"
    /\ Has(results, "job_search")
    /\ ~StepFailed(results.job_search)

\* C1: for every workflow and either backend, the agent_trace returned by
\* execute_task is the sequence of agents invoked during the call, in
\* invocation order, one entry per invocation.
C1_ReturnedTraceIsInvocationSequence ==
    (Done /\ req.task_type \in Workflows)
        => (Has(ret, "agent_trace") /\ ret.agent_trace = invoked)

\* C2: a create_application call on the session of an earlier completed
\* find_jobs call, with a job id from that call's matches, passes the
\* job_matches prerequisite and invokes the personalization agent.
C2_CreateApplicationUsesEarlierMatches ==
    (/\ Done
     /\ req.task_type = "create_application"
     /\ \E h \in history :
          /\ h.session_id = req.session_id
          /\ h.task_type = "find_jobs"
          /\ h.status = "completed"
          /\ req.input_data.job_id \in h.job_ids)
        => "personalization_agent" \in Range(invoked)

\* C3: a find_jobs call on the session of an earlier completed
\* analyze_profile call reuses the stored profile and does not invoke the
\* strategy agent.
C3_FindJobsReusesProfile ==
    (/\ req # Empty
     /\ req.task_type = "find_jobs"
     /\ \E h \in history :
          /\ h.session_id = req.session_id
          /\ h.task_type = "analyze_profile"
          /\ h.status = "completed")
        => "strategy_agent" \notin Range(invoked)

\* C4: after execute_task returned completed or failed, the stored context of
\* the session has user_id, task_type and an agent_trace holding every agent
\* invoked during the call.
C4_StoredTraceHoldsEveryInvokedAgent ==
    (Done /\ Has(ret, "status"))
        => LET ctx == store[req.session_id]
           IN  /\ ctx # NoCtx
               /\ Has(ctx, "user_id") /\ Has(ctx, "task_type") /\ Has(ctx, "agent_trace")
               /\ Range(invoked) \subseteq Range(ctx["agent_trace"])

\* C5: create_application on a context without job_matches returns failed
\* with an error in that very step: the personalization agent is not invoked,
\* no content is generated, no application is persisted, and neither the
\* returned nor the stored agent_trace gets a personalization_agent entry.
C5_NoMatchesNoPersonalization ==
    [][(pc = "create_application" /\ ~Has(store[req.session_id], "job_matches"))
        => /\ invoked' = invoked
           /\ inflight' = inflight
           /\ apc' = apc
           /\ contentCalls' = contentCalls
           /\ appDB' = appDB
           /\ outcomes' = Append(outcomes, [job_id |-> Get(AppTask.input_data, "job_id", "None"),
                                            status |-> "failed"])
           /\ "personalization_agent" \notin Range(store'[req.session_id]["agent_trace"])
           /\ (req.task_type = "create_application"
                 => /\ pc' = "done"
                    /\ ret'.status = "failed"
                    /\ Has(ret', "error")
                    /\ "personalization_agent" \notin Range(ret'.agent_trace))]_vars

C5_Witness ==
    /\ Done
    /\ req.task_type = "create_application"
    /\ ~Has(store[req.session_id], "job_matches")
    /\ ret.status = "failed"
    /\ invoked = << >>

\* C6: every execute_task call, whatever the task_type, returns an object
\* whose status is completed or failed together with a result or an error.
C6_AlwaysStatusAndResultOrError ==
    Done => /\ Has(ret, "status")
            /\ ret.status \in {"completed", "failed"}
            /\ (Has(ret, "result") \/ Has(ret, "error"))

\* C7: in full_journey, when the analyze step or the find_jobs step does not
\* complete, the journey has returned exactly that step's result (status
\* failed) and no further agent was invoked.
C7_JourneyShortCircuit ==
    (req # Empty /\ req.task_type = "full_journey")
        => /\ (Has(results, "profile_analysis") /\ StepFailed(results.profile_analysis))
                => /\ Done
                   /\ ret = results.profile_analysis
                   /\ ret.status = "failed"
                   /\ invoked = <<"strategy_agent">>
           /\ (Has(results, "job_search") /\ StepFailed(results.job_search))
                => /\ Done
                   /\ ret = results.job_search
                   /\ ret.status = "failed"
                   /\ invoked = <<"strategy_agent", "market_intelligence_agent">>

C7_Witness ==
    /\ Done
    /\ req.task_type = "full_journey"
    /\ Has(results, "job_search")
    /\ StepFailed(results.job_search)

\* The applications list and count of a journey result agree with the
\* create_application returns of the call.
ApplicationsAreTheSuccesses ==
    LET successes == SelectSeq(outcomes, IsCompleted)
    IN  /\ Has(ret.result, "applications")
        /\ Has(ret.result, "applications_count")
        /\ Len(ret.result.applications) = Len(successes)
        /\ \A i \in DOMAIN successes :
             ret.result.applications[i].job_id = successes[i].job_id
        /\ ret.result.applications_count = Len(successes)
        /\ ret.result.applications_count \in 0..TopN

\* C8: once analyze and find_jobs completed, the journey's status is
\* completed, its applications list holds exactly the jobs whose
\* create_application completed, and the result always carries
\* applications_count, the number of them (0 to 3), also when no job matched.
C8_AlwaysCarriesApplicationsCount ==
    JourneyRan => /\ ret.status = "completed"
                  /\ ApplicationsAreTheSuccesses

\* C9: in full_journey the personalization agent is invoked for at most
\* three jobs, the first min(3, N) entries of the session's job_matches,
\* which are its highest-scoring ones, in descending score order, and never
\* while another agent invocation is in flight.
C9_TopThreeInRankOrder ==
    /\ inflight <= 1
    /\ Len(personalized) <= TopN
    /\ JourneyRan =>
         LET job_matches == store[req.session_id]["job_matches"]
             n == Min(TopN, Len(job_matches))
         IN  /\ Len(personalized) = n
             /\ \A i \in 1..n : personalized[i] = job_matches[i].job.job_id
             /\ \A i \in 1..n : \A k \in DOMAIN job_matches :
                  k > i => job_matches[i].relevance_score
                           >= job_matches[k].relevance_score

C9_Witness ==
    /\ JourneyRan
    /\ Len(store[req.session_id]["job_matches"]) > TopN
    /\ Len(personalized) = TopN
    /\ store[req.session_id]["job_matches"][1].relevance_score
         > store[req.session_id]["job_matches"][TopN].relevance_score
    /\ store[req.session_id]["job_matches"][1].job.job_id # AllJobIds[1]

\* C10: when the first generated strategy is incomplete the strategy agent
\* generates a second time and ends with that second strategy; generation
\* runs exactly twice then, and exactly once when the first is complete.
C10_SecondGenerationOnIncomplete ==
    apc = "strategy_final"
        => IF StrategyComplete(generated[1])
           THEN Len(generated) = 1
           ELSE Len(generated) = 2 /\ strategy = generated[2]

---------------------------------------------------------------------------
(* Strategy agent *)

\* The strategy agent has returned to the orchestrator.
StrategyReturned ==
    /\ apc = "returned"
    /\ invoked # << >>
    /\ invoked[Len(invoked)] = "strategy_agent"

MissingResumeError == [success |-> FALSE, error |-> "Resume text or PDF is required"]

\* The parser's failure object for the task at hand, written out
ParserFailureObject ==
    [success |-> FALSE, error |-> "parse error",
     data |-> [skills |-> << >>, seniority |-> "middle", location |-> "None",
               resume_text |-> atask.resume_text]]

\* C11: when every strategy-generation call of an agent call returned an
\* object with empty target_positions, the agent (in a call whose store
\* commands succeed) returns success with react_iterations = 3 and the
\* strategy that the last generation call returned.
C11_EmptyPositionsKeepsLastAttempt ==
    (/\ StrategyReturned
     /\ generated # << >>
     /\ \A i \in DOMAIN generated : ~Truthy(generated[i], "target_positions")
     /\ aresult # StoreError)
        => /\ aresult.success
           /\ aresult.react_iterations = 3
           /\ aresult.strategy = generated[Len(generated)]

C11_Witness ==
    /\ StrategyReturned
    /\ generated # << >>
    /\ \A i \in DOMAIN generated : ~Truthy(generated[i], "target_positions")
    /\ aresult.success
    /\ aresult.strategy.target_positions = << >>

\* C12: the loop never runs more than 3 iterations; every successful call
\* reports react_iterations 2 or 3, and 2 exactly when the strategy generated
\* at iteration 2 has non-empty target_positions and non-empty objectives.
C12_LoopBoundedTwoOrThree ==
    /\ iteration <= 3
    /\ (StrategyReturned /\ aresult.success)
          => /\ aresult.react_iterations \in {2, 3}
             /\ aresult.react_iterations = 2
                  <=> (/\ Has(generated[1], "target_positions")
                       /\ generated[1].target_positions # << >>
                       /\ Has(generated[1], "objectives")
                       /\ generated[1].objectives # << >>)

C12_Witness ==
    /\ StrategyReturned
    /\ aresult.success
    /\ aresult.react_iterations = 3
    /\ generated[1].target_positions # << >>
    /\ ~Has(generated[1], "objectives")

\* C13: whenever analyze_profile returns completed, the returned strategy has
\* non-empty target_positions (an incomplete model reply having been replaced
\* by the fixed defaults).
C13_CompletedStrategyHasTargetPositions ==
    (Done /\ req.task_type = "analyze_profile" /\ Get(ret, "status", "none") = "completed")
        => /\ Has(ret.result.strategy, "target_positions")
           /\ ret.result.strategy.target_positions # << >>

---------------------------------------------------------------------------
(* Market Intelligence agent *)

\* The market agent has returned to the orchestrator.
MarketReturned ==
    /\ apc = "returned"
    /\ invoked # << >>
    /\ invoked[Len(invoked)] = "market_intelligence_agent"

\* The agent searched successfully, found jobs and asked for a ranking.
RankingAsked ==
    /\ MarketReturned
    /\ marketLog # Unset
    /\ marketLog.search.success
    /\ marketLog.search.jobs # << >>

\* The ranking call failed: the model call or the parsing of its reply
\* raised, or the reply gives a known job a score outside [0, 1].
RankingFailed ==
    \/ ~marketLog.reply.ok
    \/ \E i \in DOMAIN marketLog.reply.rankings :
         /\ marketLog.reply.rankings[i].job_id \in JobIdsOf(marketLog.search.jobs)
         /\ \/ marketLog.reply.rankings[i].relevance_score < 0
            \/ marketLog.reply.rankings[i].relevance_score > 10

\* The job ids the reply scores
ScoredIds ==
    {marketLog.reply.rankings[i].job_id : i \in DOMAIN marketLog.reply.rankings}

\* C15: for N found jobs and a ranking reply that scores only some of them,
\* the ranked list has exactly N entries, holds every input job exactly
\* once, gives a scored job the score of the reply and an unscored job the
\* default 0.5, and is in descending order of score.
C15_MergedRankingCoversEachJobOnce ==
    (/\ RankingAsked
     /\ ~RankingFailed
     /\ aresult.success
     /\ \E i \in DOMAIN marketLog.search.jobs :
          marketLog.search.jobs[i].job_id \notin ScoredIds)
        => LET jobs == marketLog.search.jobs
               out  == aresult.jobs
           IN  /\ Len(out) = Len(jobs)
               /\ \A i \in DOMAIN jobs :
                    Cardinality({k \in DOMAIN out : out[k].job = jobs[i]}) = 1
               /\ \A k \in DOMAIN out :
                    IF out[k].job.job_id \in ScoredIds
                    THEN \E i \in DOMAIN marketLog.reply.rankings :
                           /\ marketLog.reply.rankings[i].job_id = out[k].job.job_id
                           /\ marketLog.reply.rankings[i].relevance_score
                                = out[k].relevance_score
                    ELSE out[k].relevance_score = DefaultScore
               /\ \A k \in DOMAIN out : \A l \in DOMAIN out :
                    k < l => out[k].relevance_score >= out[l].relevance_score

\* C16: when the ranking call fails in any way, the market agent (in a call
\* whose store commands succeed) succeeds and returns every input job
\* exactly once, with score 0.5, in the input order.
C16_RankingFailureKeepsInputOrder ==
    (RankingAsked /\ RankingFailed /\ aresult # StoreError)
        => /\ aresult.success
           /\ aresult.jobs = [i \in DOMAIN marketLog.search.jobs |->
                                [job |-> marketLog.search.jobs[i],
                                 relevance_score |-> DefaultScore]]

C16_Witness ==
    /\ RankingAsked
    /\ marketLog.reply.ok
    /\ RankingFailed
    /\ aresult.success
    /\ Len(aresult.jobs) = MaxJobs
    /\ \A k \in DOMAIN aresult.jobs : aresult.jobs[k].relevance_score = DefaultScore

\* C17: when the job-search provider fails, the search returns the non-empty
\* placeholder list, the market agent ranks it and stores it as job_matches,
\* and find_jobs returns status completed.
C17_ProviderFailureStillCompletes ==
    (/\ Done
     /\ req.task_type = "find_jobs"
     /\ marketLog # Unset
     /\ ~marketLog.search.success)
        => /\ marketLog.search.jobs # << >>
           /\ ret.status = "completed"
           /\ MatchIdsOf(Get(store[req.session_id], "job_matches", << >>))
                = JobIdsOf(marketLog.search.jobs)

---------------------------------------------------------------------------
(* Personalization agent *)

\* The personalization agent has returned to the orchestrator.
PersonalizationReturned ==
    /\ apc = "returned"
    /\ invoked # << >>
    /\ invoked[Len(invoked)] = "personalization_agent"

\* The job of the task is one of the session's job matches.
JobFound == FindJob(Get(context, "job_matches", << >>), atask.job_id) # Unset

\* C18: for a job found in the session's job matches both generations are
\* attempted whatever the other one does; the agent (in a call whose store
\* commands succeed) returns success for all four outcomes, the application
\* field of a failed generation is empty, and cover_letter_generated and
\* resume_adapted equal the success of their generation.
C18_GenerationsFailIndependently ==
    (PersonalizationReturned /\ JobFound)
        => /\ Len(contentResults) = 2
           /\ aresult # StoreError
                => /\ aresult.success
                   /\ aresult.cover_letter_generated = contentResults[1].success
                   /\ aresult.resume_adapted = contentResults[2].success
                   /\ ~contentResults[1].success
                        => aresult.application.cover_letter = "None"
                   /\ ~contentResults[2].success
                        => aresult.application.adapted_resume = "None"

C18_Witness ==
    /\ PersonalizationReturned
    /\ JobFound
    /\ ~contentResults[1].success
    /\ contentResults[2].success
    /\ aresult.success
    /\ aresult.application.cover_letter = "None"
    /\ aresult.application.adapted_resume # "None"
    /\ ~aresult.cover_letter_generated
    /\ aresult.resume_adapted

---------------------------------------------------------------------------
(* HTTP entry points *)

\* C19: on every HTTP entry point that starts a workflow, a request whose
\* free text carries a prompt-injection pattern, or that lacks a required
\* field, is rejected before any agent runs.
C19_InvalidRequestsRejected ==
    (http # NoHttp /\ (http.injected \/ http.missing)) => http.status = 400

---------------------------------------------------------------------------
(* Stored trace *)

IsPrefix(s, t) == Len(s) <= Len(t) /\ SubSeq(t, 1, Len(s)) = s

StoredTrace(st, sid) == Get(st[sid], "agent_trace", << >>)

\* C20: within a session the stored agent_trace only grows by appending:
\* its value before any step is a prefix of its value after the step.
C20_StoredTraceAppendOnly ==
    [][\A sid \in Sessions : IsPrefix(StoredTrace(store, sid), StoredTrace(store', sid))]_vars

---------------------------------------------------------------------------
(* Workspace *)

\* The agent call that has just returned went through update_context and
\* publish_output.
StoredAndPublished ==
    /\ apc = "returned"
    /\ keptResult # Unset
    /\ keptResult.invocation = Len(invoked)

\* The record the session started with is gone from the workspace.
LoseWorkspaceHappened ==
    \E sid \in Sessions : kept[sid] # NoWs /\ kept[sid] # workspace[sid]

\* C21: losing the workspace record of a session during a workflow changes
\* nothing the workflow shows.  The run that loses the record and the run
\* that keeps it read the same values everywhere except inside
\* append_agent_output, so they stay equal (agents invoked, returned status
\* and result, session context) as long as every agent call returns in the
\* first what it returns in the second.
C21_WorkspaceLossChangesNothing ==
    StoredAndPublished => aresult = keptResult.result

C21_Witness ==
    /\ StoredAndPublished
    /\ LoseWorkspaceHappened
    /\ aresult.success
    /\ \E sid \in Sessions :
         /\ workspace[sid] # NoWs
         /\ "analytics_agent" \notin DOMAIN workspace[sid]
         /\ "analytics_agent" \in DOMAIN kept[sid]

---------------------------------------------------------------------------
(* Persistence *)

\* The agent call that has just returned ran its persistence block, which
\* failed.
PersistenceFailed ==
    /\ apc = "returned"
    /\ dbLog # Unset
    /\ dbLog.invocation = Len(invoked)
    /\ ~dbLog.ok

LastAgent == invoked[Len(invoked)]

\* The keys the agent that just returned writes to the session context
WrittenKeys ==
    IF LastAgent = "strategy_agent"
    THEN [profile |-> aresult.profile, strategy |-> aresult.strategy]
    ELSE IF LastAgent = "market_intelligence_agent"
    THEN [job_matches |-> aresult.jobs]
    ELSE [application |-> aresult.application]

\* A value as the session store holds it
AsStored(k, v) == IF backend = "redis" THEN JsonValue(k, v) ELSE v

\* C22: a failure of the persistence block of the strategy, market or
\* personalization agent never fails the agent call: the agent (in a call
\* whose store commands succeed) returns its success result, has written
\* its keys to the session context and has published the result to the
\* workspace, as when persistence succeeds.
C22_PersistenceFailureSwallowed ==
    (PersistenceFailed /\ aresult # StoreError)
        => /\ aresult.success
           /\ \A k \in DOMAIN WrittenKeys :
                /\ Has(store[atask.session_id], k)
                /\ store[atask.session_id][k]
                     = AsStored(k, WrittenKeys[k])
           /\ workspace[atask.session_id][LastAgent] = aresult

C22_Witness ==
    /\ PersistenceFailed
    /\ LastAgent = "market_intelligence_agent"
    /\ aresult.success
    /\ aresult.jobs # << >>
    /\ Has(store[atask.session_id], "job_matches")

---------------------------------------------------------------------------
(* Session store availability *)

\* C23: when the key-value backend is unavailable, at start-up or after a
\* successful start-up, the session store operations fall back to the
\* in-process store instead of failing: no agent call ends in the error of
\* a failed store command.
C23_StoreFallsBackWhenUnavailable ==
    apc = "returned" => aresult # StoreError

---------------------------------------------------------------------------
(* Application tracker *)

InRange(rate) == 0 <= rate.num /\ rate.num <= 100 * rate.den /\ rate.den > 0

\* C24: in every KPI snapshot each count is at most total_applications,
\* offers <= interviews <= viewed, the three rates are between 0 and 100, and
\* with no application the three rates are 0.0 and nothing is divided.
C24_KpiRatesWithinBounds ==
    kpi # Unset
        => /\ kpi.applications_viewed <= kpi.total_applications
           /\ kpi.interviews_scheduled <= kpi.applications_viewed
           /\ kpi.offers_received <= kpi.interviews_scheduled
           /\ InRange(kpi.click_through_rate)
           /\ InRange(kpi.interview_rate)
           /\ InRange(kpi.offer_rate)
           /\ kpi.total_applications = 0
                => /\ kpi.click_through_rate = ZeroRate
                   /\ kpi.interview_rate = ZeroRate
                   /\ kpi.offer_rate = ZeroRate

C24_Witness ==
    /\ kpi # Unset
    /\ kpi.total_applications = 2
    /\ kpi.applications_viewed = 1
    /\ kpi.click_through_rate = [num |-> 100, den |-> 2]
    /\ kpi.offer_rate.num = 0

\* The time of the first update of an application to a status, NoTime when
\* there was none
FirstAt(job_id, status) ==
    LET hits == {i \in DOMAIN statusLog[job_id] : statusLog[job_id][i].status = status}
    IN  IF hits = {} THEN NoTime
        ELSE statusLog[job_id][CHOOSE i \in hits : \A k \in hits : i <= k].at

\* C25: viewed_at is assigned exactly once, at the first update to viewed,
\* and a later update to viewed leaves it as it is; the same for
\* interview_at and the interview status.
C25_TimestampAssignedOnce ==
    \A j \in TrackedJobs :
        appDB[j] # NoApp
            => /\ appDB[j].viewed_at = FirstAt(j, "viewed")
               /\ appDB[j].interview_at = FirstAt(j, "interview")

C25_Witness ==
    \E j \in TrackedJobs :
        /\ appDB[j] # NoApp
        /\ Len(statusLog[j]) = 2
        /\ statusLog[j][1].status = "viewed"
        /\ statusLog[j][2].status = "viewed"
        /\ appDB[j].viewed_at = statusLog[j][1].at
        /\ appDB[j].viewed_at # statusLog[j][2].at

\* C26: every status with a timestamp field has it set when the status is
\* first reached: submitted_at at the first update to submitted, viewed_at
\* at the first to viewed, interview_at at the first to interview.
C26_EveryTimestampSetOnFirstReach ==
    \A j \in TrackedJobs :
        appDB[j] # NoApp
            => /\ appDB[j].submitted_at = FirstAt(j, "submitted")
               /\ appDB[j].viewed_at = FirstAt(j, "viewed")
               /\ appDB[j].interview_at = FirstAt(j, "interview")

\* Position of a status in the lifecycle
LifecycleRank(status) ==
    CASE status = "draft"     -> 0
      [] status = "submitted" -> 1
      [] status = "viewed"    -> 2
      [] status = "interview" -> 3
      [] OTHER                -> 4

\* C28: the persisted status of an application only moves forward along
\* draft, submitted, viewed, interview, then rejected or accepted.
C28_StatusOnlyMovesForward ==
    [][\A j \in TrackedJobs :
         (appDB[j] # NoApp /\ appDB'[j] # NoApp)
            => LifecycleRank(appDB'[j].status) >= LifecycleRank(appDB[j].status)]_vars

---------------------------------------------------------------------------
(* Write-back of the orchestrator *)

\* The awaited agent has returned a success result, so it has stored its keys.
AgentStoredItsKeys ==
    /\ apc = "returned"
    /\ aresult # StoreError
    /\ Get(aresult, "success", FALSE)

\* C27: the step of the orchestrator that follows an agent call, with its
\* write-back of the context read before the call, leaves every key the
\* agent has just stored as the agent stored it; after a create_application
\* of a full_journey the application key is the application of that call.
C27_WriteBackKeepsAgentKeys ==
    [][AgentStoredItsKeys
         => \A k \in DOMAIN WrittenKeys :
              store'[atask.session_id][k] = store[atask.session_id][k]]_vars

---------------------------------------------------------------------------
(* Backends *)

\* The last application a create_application of this call completed with
LastCompleted ==
    LET done == {i \in DOMAIN outcomes : outcomes[i].status = "completed"}
    IN  IF done = {} THEN "None"
        ELSE outcomes[CHOOSE i \in done : \A k \in done : k <= i].job_id

\* What a finished call shows: the returned trace, the stored trace and the
\* job of the stored application.
Observed ==
    [agent_trace  |-> Get(ret, "agent_trace", << >>),
     stored_trace |-> StoredTrace(store, req.session_id),
     application  |-> IF Has(store[req.session_id], "application")
                      THEN store[req.session_id].application.job_id ELSE "None"]

\* What the in-process store shows for the same request and the same agent
\* outcomes: its contexts are the stored dictionary itself, so both traces
\* are the invocation sequence and the application is the last one made.
ObservedOnFallback ==
    [agent_trace  |-> invoked,
     stored_trace |-> invoked,
     application  |-> LastCompleted]

FallbackShowsReference ==
    (backend = "fallback" /\ Done /\ Has(ret, "status")) => Observed = ObservedOnFallback

\* C30: the two backends are observationally equivalent: a finished call on
\* either shows the returned trace, the stored trace and the stored
\* application that the in-process store shows.
C30_BackendsObservationallyEquivalent ==
    (Done /\ Has(ret, "status")) => Observed = ObservedOnFallback

---------------------------------------------------------------------------
(* Output guard *)

\* A dictionary without its sensitive keys, at every depth
RECURSIVE Stripped(_)
Stripped(data) ==
    [key \in {k \in DOMAIN data : ~Sensitive(k)} |->
        LET value == data[key]
        IN  IF value.kind = "dict" THEN Dict(Stripped(value.items))
            ELSE IF value.kind = "list"
            THEN List([i \in DOMAIN value.items |->
                         IF value.items[i].kind = "dict"
                         THEN Dict(Stripped(value.items[i].items))
                         ELSE value.items[i]])
            ELSE value]

\* C29: after sanitize_output no key whose name contains api_key, password,
\* token or secret remains, at the top level or at any depth inside the
\* result dictionary, and every other key and value is returned unchanged.
C29_NoSensitiveKeyRemains ==
    sanitized # Unset => sanitized = Stripped(raw)

====
